---- MODULE Spec2Model ----
(***************************************************************************)
(* Data access and audit subsystem of the apartment management            *)
(* application (src/tt_final.py).                                          *)
(*                                                                         *)
(* The application holds ONE database connection (DatabaseConnection       *)
(* singleton) and every form handler runs to completion on it, so each     *)
(* handler is one atomic action.  The connection is modelled as a pair     *)
(*   db : the committed tables (what survives a rollback),                 *)
(*   tx : the tables as the connection sees them, uncommitted writes       *)
(*        included,                                                        *)
(* with commit copying tx to db and rollback copying db to tx.  A          *)
(* statement that raises cx_Oracle.DatabaseError changes nothing itself    *)
(* (statement-level atomicity) and leaves earlier uncommitted writes of    *)
(* the transaction in place.                                               *)
(***************************************************************************)
EXTENDS Integers, Sequences, FiniteSets, TLC

\* ------------------------------------------------------------- bounds
\* Rows the append-only tables (Payment, Maintenance, Audit_Tenant) may hold
\* in total: a handler is explored only while the rows it may write fit.
MaxRows == 2

\* ---------------------------------------------------- program constants
\* "SET due_amount = due_amount + 100"
ServiceFee == 100
\* Column value of a column the INSERT statement does not name.
NULL == 0
\* Tenant.due_amount of a row inserted without it (the schema's default).
DefaultDue == 0

\* -------------------------------------------------------- input domains
Houses == {1, 2}
\* Apartment rows are created outside the application and never change.
Apartment == {1, 2}
\* Apartment ids typed into the forms (an unknown id is a failing statement).
AptIds == Apartment
\* Form contents of the add/update forms; field values are coded as numbers
\* (NULL is none of them).  Every field differs between the two snapshots.
TenantInputs ==
    { [tenant_name |-> 11, phone_number |-> 21, apartment_id |-> 1, move_in_date |-> 31],
      [tenant_name |-> 12, phone_number |-> 22, apartment_id |-> 2, move_in_date |-> 32] }
Amounts == {40, 100}
PaymentDates == {41}
Methods == {"Credit Card", "Cash", "Bank Transfer"}
Issues == {51}

VARIABLES
    db,       \* committed tables
    tx,       \* the connection's view: committed tables plus uncommitted writes
    now,      \* the store's clock (the default of Audit_Tenant.change_date)
    inst      \* the sessions of two further application instances, each on a
              \* connection of its own (idle unless the instances are run)

vars == <<db, tx, now, inst>>

\* ------------------------------------------------------------ the store
Conn(d, t) == [db |-> d, tx |-> t]

\* connection.commit()
Commit(c) == Conn(c.tx, c.tx)

\* As Rollback, the uncommitted writes left on the connection.
Rollback_kept(c) == c

\* connection.rollback()
Rollback(c) == Conn(c.db, c.db)

\* Number of rows of a table (a sequence of rows) that satisfy P.
Count(rows, P(_)) == Cardinality({i \in DOMAIN rows : P(rows[i])})

TotalRows(t) == Len(t.Payment) + Len(t.Maintenance) + Len(t.Audit_Tenant)

\* The rows the handler has written still fit the bound.
Bounded == TotalRows(db') <= MaxRows

Shown(kind, msg) == [kind |-> kind, msg |-> msg]

\* ------------------------------------------------------ tenant commands
\* The command object's fields: the form contents under the typed house_no.
TenantData(house_no, input) ==
    [house_no |-> house_no, tenant_name |-> input.tenant_name,
     phone_number |-> input.phone_number, apartment_id |-> input.apartment_id,
     move_in_date |-> input.move_in_date]

TenantRow(data, due) ==
    [tenant_name |-> data.tenant_name, phone_number |-> data.phone_number,
     apartment_id |-> data.apartment_id, move_in_date |-> data.move_in_date,
     due_amount |-> due]

\* Tenant.house_no is the primary key: a second row with it is rejected.
InsertTenantRejected(t, house_no) == house_no \in DOMAIN t.Tenant

\* Payment.house_no and Maintenance.house_no reference Tenant: a tenant that
\* still has rows there cannot be deleted.
DeleteTenantRejected(t, house_no) ==
    \/ \E i \in DOMAIN t.Payment : t.Payment[i].house_no = house_no
    \/ \E i \in DOMAIN t.Maintenance : t.Maintenance[i].house_no = house_no

\* The INSERT of AddTenantCommand raises DatabaseError.
AddTenantFails(c, data, fault) == fault \/ InsertTenantRejected(c.tx, data.house_no)

\* The DELETE of DeleteTenantCommand raises DatabaseError.
DeleteTenantFails(c, house_no, fault) == fault \/ DeleteTenantRejected(c.tx, house_no)

\* As AddTenantCommand_execute, the bind variables of tenant_name and
\* phone_number in each other's place.
AddTenantCommand_execute_swapped(c, data, fault) ==
    IF AddTenantFails(c, data, fault)
    THEN Rollback(c)
    ELSE Commit([c EXCEPT !.tx.Tenant =
                    (data.house_no :>
                        [TenantRow(data, DefaultDue) EXCEPT
                            !.tenant_name = data.phone_number,
                            !.phone_number = data.tenant_name]) @@ @])

\* AddTenantCommand.execute: INSERT, commit; on DatabaseError rollback.
AddTenantCommand_execute(c, data, fault) ==
    IF AddTenantFails(c, data, fault)
    THEN Rollback(c)
    ELSE Commit([c EXCEPT !.tx.Tenant =
                    (data.house_no :> TenantRow(data, DefaultDue)) @@ @])

\* As UpdateTenantCommand_execute, due_amount set back to the default.
UpdateTenantCommand_execute_resetting(c, data, fault) ==
    IF fault
    THEN Rollback(c)
    ELSE Commit([c EXCEPT !.tx.Tenant =
                    [h \in DOMAIN @ |->
                        IF h = data.house_no
                        THEN TenantRow(data, DefaultDue)
                        ELSE @[h]]])

\* UpdateTenantCommand.execute: UPDATE ... WHERE house_no, commit; on
\* DatabaseError rollback.  due_amount is not among the columns set.
UpdateTenantCommand_execute(c, data, fault) ==
    IF fault
    THEN Rollback(c)
    ELSE Commit([c EXCEPT !.tx.Tenant =
                    [h \in DOMAIN @ |->
                        IF h = data.house_no
                        THEN TenantRow(data, @[h].due_amount)
                        ELSE @[h]]])

\* DeleteTenantCommand.execute: DELETE ... WHERE house_no, commit; on
\* DatabaseError rollback.
DeleteTenantCommand_execute(c, house_no, fault) ==
    IF DeleteTenantFails(c, house_no, fault)
    THEN Rollback(c)
    ELSE Commit([c EXCEPT !.tx.Tenant =
                    [h \in DOMAIN @ \ {house_no} |-> @[h]]])

\* ListTenantsCommand.execute: the rows of Tenant, house_no first.
ListTenantsCommand_execute(c) ==
    { <<h, c.tx.Tenant[h].tenant_name, c.tx.Tenant[h].phone_number,
        c.tx.Tenant[h].apartment_id, c.tx.Tenant[h].move_in_date,
        c.tx.Tenant[h].due_amount>> : h \in DOMAIN c.tx.Tenant }

\* ------------------------------------------------------- audit observer
AuditRow(event_type, data, t) ==
    IF event_type = "DELETE"
    THEN [house_no |-> data.house_no, tenant_name |-> NULL, phone_number |-> NULL,
          apartment_id |-> NULL, move_in_date |-> NULL,
          action |-> event_type, change_date |-> t]
    ELSE [house_no |-> data.house_no, tenant_name |-> data.tenant_name,
          phone_number |-> data.phone_number, apartment_id |-> data.apartment_id,
          move_in_date |-> data.move_in_date,
          action |-> event_type, change_date |-> t]

\* As AuditLogger_update, the new row replacing the rows of its house_no.
AuditLogger_update_replacing(c, event_type, data, t, fault) ==
    IF fault
    THEN c
    ELSE Commit([c EXCEPT !.tx.Audit_Tenant =
                    Append(SelectSeq(@, LAMBDA r : r.house_no # data.house_no),
                           AuditRow(event_type, data, t))])

\* AuditLogger.update: INSERT INTO Audit_Tenant, commit; a DatabaseError is
\* printed and nothing else is done (no rollback).  t is the store's clock,
\* the default of change_date.
AuditLogger_update(c, event_type, data, t, fault) ==
    IF fault
    THEN c
    ELSE Commit([c EXCEPT !.tx.Audit_Tenant = Append(@, AuditRow(event_type, data, t))])

\* The line AuditLogger.update prints.
AuditLogger_printed(event_type, fault) ==
    IF fault THEN "Error logging audit" ELSE "Audit log added"

\* TenantManager.notify_observers: the one registered observer is the
\* AuditLogger.
TenantManager_notify_observers(c, event_type, data, t, fault) ==
    AuditLogger_update(c, event_type, data, t, fault)

\* As TenantManager_add_tenant, the command and its audit row in one
\* transaction: a failing audit write takes the tenant row back.
TenantManager_add_tenant_atomic(c, data, t, fault) ==
    IF fault = 2
    THEN Rollback(c)
    ELSE TenantManager_notify_observers(
            AddTenantCommand_execute(c, data, fault = 1), "INSERT", data, t, FALSE)

\* TenantManager.add_tenant: execute the command, then notify 'INSERT'.
TenantManager_add_tenant(c, data, t, fault) ==
    TenantManager_notify_observers(
        AddTenantCommand_execute(c, data, fault = 1), "INSERT", data, t, fault = 2)

\* As TenantManager_update_tenant, notifying only when the UPDATE matched a row.
TenantManager_update_tenant_matched(c, data, t, fault) ==
    IF data.house_no \in DOMAIN c.tx.Tenant
    THEN TenantManager_notify_observers(
            UpdateTenantCommand_execute(c, data, fault = 1), "UPDATE", data, t, fault = 2)
    ELSE UpdateTenantCommand_execute(c, data, fault = 1)

\* TenantManager.update_tenant: execute the command, then notify 'UPDATE'.
TenantManager_update_tenant(c, data, t, fault) ==
    TenantManager_notify_observers(
        UpdateTenantCommand_execute(c, data, fault = 1), "UPDATE", data, t, fault = 2)

\* TenantManager.delete_tenant: execute the command, then notify 'DELETE'
\* with the house_no alone.
TenantManager_delete_tenant(c, house_no, t, fault) ==
    TenantManager_notify_observers(
        DeleteTenantCommand_execute(c, house_no, fault = 1), "DELETE",
        [house_no |-> house_no], t, fault = 2)

\* ------------------------------------------------------- admin handlers
None == [none |-> TRUE]

\* AdminApp.fetch_tenant_details: the tenant's fields, or None when no row
\* matches or the SELECT raises DatabaseError.
AdminApp_fetch_tenant_details(c, house_no, fault) ==
    IF fault \/ house_no \notin DOMAIN c.tx.Tenant
    THEN None
    ELSE TenantData(house_no, c.tx.Tenant[house_no])

\* Statements of a handler in execution order; fault k makes the k-th raise
\* DatabaseError, fault 0 none.
AddFaults == 0..2
UpdateFaults == 0..2
DeleteFaults == 0..4

\* The message boxes the handlers show are not state: each is an operator of
\* the connection the handler started on and of its inputs.
AddTenantShown == Shown("info", "Tenant added successfully")

UpdateTenantShown == Shown("info", "Tenant updated successfully")

\* AdminApp.add_tenant (all fields filled, the date well-formed).
AdminApp_add_tenant(house_no, input, fault) ==
    /\ LET c == TenantManager_add_tenant(Conn(db, tx), TenantData(house_no, input),
                                          now, fault)
       IN  db' = c.db /\ tx' = c.tx
    /\ UNCHANGED <<now, inst>>
    /\ Bounded

\* AdminApp.update_tenant (all fields filled, the date well-formed).
AdminApp_update_tenant(house_no, input, fault) ==
    /\ LET c == TenantManager_update_tenant(Conn(db, tx), TenantData(house_no, input),
                                             now, fault)
       IN  db' = c.db /\ tx' = c.tx
    /\ UNCHANGED <<now, inst>>
    /\ Bounded

\* As DeleteTenantConn, without the return when no tenant is found.
DeleteTenantConn_unchecked(c, house_no, t, fault) ==
    LET c1 == AuditLogger_update(c, "DELETE", [house_no |-> house_no], t, fault = 2)
    IN  TenantManager_delete_tenant(c1, house_no, t, fault - 2)

\* The connection after AdminApp.delete_tenant: fetch the details; when found
\* log 'DELETE' through a fresh AuditLogger, then delete through the
\* TenantManager (which notifies the registered AuditLogger again).
DeleteTenantConn(c, house_no, t, fault) ==
    LET tenant_data == AdminApp_fetch_tenant_details(c, house_no, fault = 1)
        c1 == AuditLogger_update(c, "DELETE", tenant_data, t, fault = 2)
    IN  IF tenant_data = None
        THEN c
        ELSE TenantManager_delete_tenant(c1, house_no, t, fault - 2)

\* The message box AdminApp.delete_tenant shows: nothing the TenantManager
\* calls raises, so the except branch is never taken.
DeleteTenantShown(c, house_no, fault) ==
    IF AdminApp_fetch_tenant_details(c, house_no, fault = 1) = None
    THEN Shown("warning", "Tenant not found")
    ELSE Shown("info", "Tenant deleted successfully")

\* AdminApp.delete_tenant (house_no filled).
AdminApp_delete_tenant(house_no, fault) ==
    /\ LET c == DeleteTenantConn(Conn(db, tx), house_no, now, fault)
       IN  db' = c.db /\ tx' = c.tx
    /\ UNCHANGED <<now, inst>>
    /\ Bounded

\* ------------------------------------------------------ latest audit rows
\* SELECT MAX(change_date) FROM Audit_Tenant, the table not empty.
MaxChangeDate(rows) ==
    CHOOSE d \in {rows[i].change_date : i \in DOMAIN rows} :
        \A i \in DOMAIN rows : rows[i].change_date <= d

\* The row as selected: audit_id (the row's number), house_no, action,
\* change_date.
LatestRow(rows, i) == <<i, rows[i].house_no, rows[i].action, rows[i].change_date>>

RECURSIVE SelectLatest(_, _, _)
\* The rows from the i-th on whose change_date is d, in table order.
SelectLatest(rows, i, d) ==
    IF i > Len(rows) THEN <<>>
    ELSE IF rows[i].change_date = d
         THEN <<LatestRow(rows, i)>> \o SelectLatest(rows, i + 1, d)
         ELSE SelectLatest(rows, i + 1, d)

\* As AdminApp_display_latest_modifications_gui, selecting the one row written
\* last instead of the rows of the maximum change_date.
AdminApp_display_latest_modifications_gui_last_row(c, fault) ==
    IF fault \/ c.tx.Audit_Tenant = <<>>
    THEN <<>>
    ELSE <<LatestRow(c.tx.Audit_Tenant, Len(c.tx.Audit_Tenant))>>

\* AdminApp.display_latest_modifications_gui: the rows returned (infos), those
\* whose change_date is the maximum of the table; none when the table is empty
\* (the maximum is null) or the SELECT raises.
AdminApp_display_latest_modifications_gui(c, fault) ==
    IF fault \/ c.tx.Audit_Tenant = <<>>
    THEN <<>>
    ELSE SelectLatest(c.tx.Audit_Tenant, 1, MaxChangeDate(c.tx.Audit_Tenant))

\* ---------------------------------------------------------------- clock
\* Time passes.  Only the order of the change_date values written is ever
\* read, so the clock is advanced only past the latest one written.
Tick ==
    /\ db.Audit_Tenant # <<>>
    /\ db.Audit_Tenant[Len(db.Audit_Tenant)].change_date = now
    /\ now' = now + 1
    /\ UNCHANGED <<db, tx, inst>>

\* ------------------------------------------------------- tenant handlers
PaymentFaults == 0..3
RequestFaults == 0..2
ServiceFaults == 0..5

PaymentRow(house_no, payment_date, amount_paid, payment_method) ==
    [house_no |-> house_no, payment_date |-> payment_date,
     amount_paid |-> amount_paid, payment_method |-> payment_method]

\* As MakePaymentConn, the UPDATE adding the amount to due_amount.
MakePaymentConn_added(c, house_no, payment_date, amount_paid, payment_method, fault) ==
    IF fault = 1 THEN Rollback(c)
    ELSE IF house_no \notin DOMAIN c.tx.Tenant THEN c
    ELSE IF fault = 2 THEN Rollback(c)
    ELSE LET c1 == [c EXCEPT !.tx.Payment =
                        Append(@, PaymentRow(house_no, payment_date, amount_paid,
                                             payment_method))]
         IN  IF fault = 3 THEN Rollback(c1)
             ELSE Commit([c1 EXCEPT !.tx.Tenant[house_no].due_amount = @ + amount_paid])

\* As MakePaymentConn, the except branch without its rollback.
MakePaymentConn_no_rollback(c, house_no, payment_date, amount_paid, payment_method, fault) ==
    IF fault = 1 THEN c
    ELSE IF house_no \notin DOMAIN c.tx.Tenant THEN c
    ELSE IF fault = 2 THEN c
    ELSE LET c1 == [c EXCEPT !.tx.Payment =
                        Append(@, PaymentRow(house_no, payment_date, amount_paid,
                                             payment_method))]
         IN  IF fault = 3 THEN c1
             ELSE Commit([c1 EXCEPT !.tx.Tenant[house_no].due_amount = @ - amount_paid])

\* As MakePaymentConn, a cash payment recorded without the deduction.
MakePaymentConn_cash_kept(c, house_no, payment_date, amount_paid, payment_method, fault) ==
    IF fault = 1 THEN Rollback(c)
    ELSE IF house_no \notin DOMAIN c.tx.Tenant THEN c
    ELSE IF fault = 2 THEN Rollback(c)
    ELSE LET c1 == [c EXCEPT !.tx.Payment =
                        Append(@, PaymentRow(house_no, payment_date, amount_paid,
                                             payment_method))]
         IN  IF fault = 3 THEN Rollback(c1)
             ELSE IF payment_method = "Cash" THEN Commit(c1)
             ELSE Commit([c1 EXCEPT !.tx.Tenant[house_no].due_amount = @ - amount_paid])

\* The connection after TenantApp.make_payment: SELECT the tenant; when found
\* INSERT the Payment row, UPDATE due_amount = due_amount - amount, commit;
\* on DatabaseError rollback.
MakePaymentConn(c, house_no, payment_date, amount_paid, payment_method, fault) ==
    IF fault = 1 THEN Rollback(c)
    ELSE IF house_no \notin DOMAIN c.tx.Tenant THEN c
    ELSE IF fault = 2 THEN Rollback(c)
    ELSE LET c1 == [c EXCEPT !.tx.Payment =
                        Append(@, PaymentRow(house_no, payment_date, amount_paid,
                                             payment_method))]
         IN  IF fault = 3 THEN Rollback(c1)
             ELSE Commit([c1 EXCEPT !.tx.Tenant[house_no].due_amount = @ - amount_paid])

\* The message box TenantApp.make_payment shows.
MakePaymentShown(c, house_no, fault) ==
    IF fault = 1 THEN Shown("error", "Error recording payment")
    ELSE IF house_no \notin DOMAIN c.tx.Tenant
         THEN Shown("warning", "No tenant found with that house number.")
    ELSE IF fault # 0 THEN Shown("error", "Error recording payment")
    ELSE Shown("info", "Payment recorded successfully!")

\* TenantApp.make_payment
TenantApp_make_payment(house_no, payment_date, amount_paid, payment_method, fault) ==
    /\ LET c == MakePaymentConn(Conn(db, tx), house_no, payment_date, amount_paid,
                                 payment_method, fault)
       IN  db' = c.db /\ tx' = c.tx
    /\ UNCHANGED <<now, inst>>
    /\ Bounded

\* PaymentStrategy.process_payment of the three strategies: each prints a line.
PaymentStrategy_process_payment(payment_method) ==
    CASE payment_method = "Credit Card" -> "Processing credit card payment"
      [] payment_method = "Cash" -> "Processing cash payment"
      [] payment_method = "Bank Transfer" -> "Processing bank transfer payment"

\* process_payment of the payment form: pick the strategy of the chosen
\* method, let it print, then record the payment.
TenantApp_process_payment(house_no, payment_date, amount_paid, payment_method, fault) ==
    /\ PaymentStrategy_process_payment(payment_method) # ""
    /\ TenantApp_make_payment(house_no, payment_date, amount_paid, payment_method, fault)

\* Maintenance.status of a row inserted without it (the schema's default).
DefaultStatus == "Open"

MaintenanceRow(apartment_id, house_no, issue_description) ==
    [apartment_id |-> apartment_id, house_no |-> house_no,
     issue_description |-> issue_description, status |-> DefaultStatus]

\* As RequestMaintenanceConn, without the check that the tenant exists.
RequestMaintenanceConn_unchecked(c, apartment_id, house_no, issue_description, fault) ==
    IF fault = 1 THEN Rollback(c)
    ELSE IF fault = 2 THEN Rollback(c)
    ELSE Commit([c EXCEPT !.tx.Maintenance =
                    Append(@, MaintenanceRow(apartment_id, house_no,
                                             issue_description))])

\* The connection after TenantApp.request_maintenance: SELECT the tenant; when
\* found INSERT the Maintenance row (status not named) and commit; on
\* DatabaseError rollback.  request_date (SYSDATE) is read by no operation and
\* is left out of the row.
RequestMaintenanceConn(c, apartment_id, house_no, issue_description, fault) ==
    IF fault = 1 THEN Rollback(c)
    ELSE IF house_no \notin DOMAIN c.tx.Tenant THEN c
    ELSE IF fault = 2 THEN Rollback(c)
    ELSE Commit([c EXCEPT !.tx.Maintenance =
                    Append(@, MaintenanceRow(apartment_id, house_no,
                                             issue_description))])

\* The message box TenantApp.request_maintenance shows.
RequestMaintenanceShown(c, house_no, fault) ==
    IF fault = 1 THEN Shown("error", "Error executing query")
    ELSE IF house_no \notin DOMAIN c.tx.Tenant
         THEN Shown("warning", "No tenant found with that house number.")
    ELSE IF fault # 0 THEN Shown("error", "Error executing query")
    ELSE Shown("info", "Maintenance request submitted successfully!")

\* TenantApp.request_maintenance
TenantApp_request_maintenance(apartment_id, house_no, issue_description, fault) ==
    /\ LET c == RequestMaintenanceConn(Conn(db, tx), apartment_id, house_no,
                                        issue_description, fault)
       IN  db' = c.db /\ tx' = c.tx
    /\ UNCHANGED <<now, inst>>
    /\ Bounded

\* -------------------------------------------------- maintenance service
ForPair(row, apartment_id, house_no) ==
    row.apartment_id = apartment_id /\ row.house_no = house_no

\* As AdminApp_check_complaint, counting only the rows not yet completed.
AdminApp_check_complaint_open_only(c, apartment_id, house_no, fault) ==
    IF fault THEN FALSE
    ELSE Count(c.tx.Maintenance,
               LAMBDA r : ForPair(r, apartment_id, house_no) /\ r.status # "Completed") > 0

\* AdminApp.check_complaint: COUNT(*) of the pair's rows > 0; False when the
\* SELECT raises DatabaseError.
AdminApp_check_complaint(c, apartment_id, house_no, fault) ==
    IF fault THEN FALSE
    ELSE Count(c.tx.Maintenance, LAMBDA r : ForPair(r, apartment_id, house_no)) > 0

\* As AdminApp_incomplete_complaint, without the status condition.
AdminApp_incomplete_complaint_any_status(c, apartment_id, house_no, fault) ==
    IF fault THEN FALSE
    ELSE Count(c.tx.Maintenance, LAMBDA r : ForPair(r, apartment_id, house_no)) > 0

\* AdminApp.incomplete_complaint: COUNT(*) of the pair's rows with
\* status != 'Completed' > 0; False when the SELECT raises DatabaseError.
AdminApp_incomplete_complaint(c, apartment_id, house_no, fault) ==
    IF fault THEN FALSE
    ELSE Count(c.tx.Maintenance,
               LAMBDA r : ForPair(r, apartment_id, house_no) /\ r.status # "Completed") > 0

\* SELECT issue_description ... WHERE apartment_id AND house_no: issues_fixed.
IssuesFixed(c, apartment_id, house_no) ==
    SelectSeq(c.tx.Maintenance, LAMBDA r : ForPair(r, apartment_id, house_no))

\* As CompleteRows, the rows of the pair already completed set back to the
\* default status.
CompleteRows_toggling(c, apartment_id, house_no) ==
    [c EXCEPT !.tx.Maintenance =
        [i \in DOMAIN @ |->
            IF ForPair(@[i], apartment_id, house_no)
            THEN [@[i] EXCEPT !.status =
                    IF @ = "Completed" THEN DefaultStatus ELSE "Completed"]
            ELSE @[i]]]

\* As CompleteRows, committing right after the UPDATE.
CompleteRows_committed(c, apartment_id, house_no) ==
    Commit([c EXCEPT !.tx.Maintenance =
        [i \in DOMAIN @ |->
            IF ForPair(@[i], apartment_id, house_no)
            THEN [@[i] EXCEPT !.status = "Completed"]
            ELSE @[i]]])

\* UPDATE Maintenance SET status = 'Completed' WHERE apartment_id AND house_no
CompleteRows(c, apartment_id, house_no) ==
    [c EXCEPT !.tx.Maintenance =
        [i \in DOMAIN @ |->
            IF ForPair(@[i], apartment_id, house_no)
            THEN [@[i] EXCEPT !.status = "Completed"]
            ELSE @[i]]]

\* As ChargeFee, the fee charged once per completed row of the tenant.
ChargeFee_per_issue(c, house_no) ==
    [c EXCEPT !.tx.Tenant =
        [h \in DOMAIN @ |->
            IF h = house_no
            THEN [@[h] EXCEPT !.due_amount = @ + ServiceFee *
                    Count(c.tx.Maintenance,
                          LAMBDA r : r.house_no = house_no /\ r.status = "Completed")]
            ELSE @[h]]]

\* UPDATE Tenant SET due_amount = due_amount + 100 WHERE house_no
ChargeFee(c, house_no) ==
    [c EXCEPT !.tx.Tenant =
        [h \in DOMAIN @ |->
            IF h = house_no
            THEN [@[h] EXCEPT !.due_amount = @ + ServiceFee]
            ELSE @[h]]]

\* AdminApp.provide_service: the connection afterwards (conn) and what the
\* handler shows (shown): the returned message as info, or the error callback.
AdminApp_provide_service(c, apartment_id, house_no, fault) ==
    IF AdminApp_check_complaint(c, apartment_id, house_no, fault = 1)
    THEN IF AdminApp_incomplete_complaint(c, apartment_id, house_no, fault = 2)
         THEN IF fault = 3
              THEN [conn |-> Rollback(c),
                    shown |-> Shown("error", "Error submitting maintenance request")]
              ELSE IF IssuesFixed(c, apartment_id, house_no) # <<>>
              THEN IF fault = 4
                   THEN [conn |-> Rollback(c),
                         shown |-> Shown("error", "Error submitting maintenance request")]
                   ELSE IF fault = 5
                   THEN [conn |-> Rollback(CompleteRows(c, apartment_id, house_no)),
                         shown |-> Shown("error", "Error submitting maintenance request")]
                   ELSE [conn |-> Commit(ChargeFee(CompleteRows(c, apartment_id, house_no),
                                                   house_no)),
                         shown |-> Shown("info", "Maintenance Service Completed")]
              ELSE [conn |-> c, shown |-> Shown("info", "No issues found to fix.")]
         ELSE [conn |-> c, shown |-> Shown("info", "Maintenance service already completed.")]
    ELSE [conn |-> c, shown |-> Shown("info", "No complaint registered for this apartment.")]

\* provide of the service form: call provide_service and show its outcome
\* (the shown field).
AdminApp_provide(apartment_id, house_no, fault) ==
    /\ LET r == AdminApp_provide_service(Conn(db, tx), apartment_id, house_no, fault)
       IN  db' = r.conn.db /\ tx' = r.conn.tx
    /\ UNCHANGED <<now, inst>>
    /\ Bounded

\* -------------------------------------------------------- specification
NoTables == [Tenant |-> <<>>, Payment |-> <<>>, Maintenance |-> <<>>, Audit_Tenant |-> <<>>]

\* The store exists before the application starts: the tenants already in it
\* are any subset of the houses, each with the schema's default due_amount;
\* nothing has been paid, requested or audited yet.
InitialTables ==
    { [NoTables EXCEPT !.Tenant = [h \in S |-> TenantRow(i, DefaultDue)]] :
        S \in SUBSET Houses, i \in {j \in TenantInputs : j.apartment_id = 1} }

\* --------------------------------------------------- further instances
Instances == {1, 2}

\* The session of an instance: the handler it runs (op) with its arguments,
\* how far the handler has come (pc), the due_amount its SELECT fetched
\* (selected), the due_amount its UPDATE has written and not yet committed
\* (written), whether the other instance was in a handler when this one
\* started (met) and the message box shown.
NoSession ==
    [pc |-> "idle", op |-> "none", apartment_id |-> NULL, house_no |-> NULL,
     payment_date |-> NULL, amount_paid |-> NULL, payment_method |-> "",
     selected |-> NULL, written |-> NULL, met |-> FALSE, shown |-> None]

Idle == [i \in Instances |-> NoSession]

Init ==
    /\ db \in InitialTables
    /\ tx = db
    /\ now = 0
    /\ inst = Idle

Next ==
    \/ \E h \in Houses, i \in TenantInputs, f \in AddFaults : AdminApp_add_tenant(h, i, f)
    \/ \E h \in Houses, i \in TenantInputs, f \in UpdateFaults : AdminApp_update_tenant(h, i, f)
    \/ \E h \in Houses, f \in DeleteFaults : AdminApp_delete_tenant(h, f)
    \/ \E h \in Houses, d \in PaymentDates, a \in Amounts, m \in Methods, f \in PaymentFaults :
          TenantApp_process_payment(h, d, a, m, f)
    \/ \E a \in AptIds, h \in Houses, i \in Issues, f \in RequestFaults :
          TenantApp_request_maintenance(a, h, i, f)
    \/ \E a \in AptIds, h \in Houses, f \in ServiceFaults : AdminApp_provide(a, h, f)

\* The handlers, all within one value of the store's clock.
Spec == Init /\ [][Next]_vars

\* The handlers with time passing between them.
NextTimed == Next \/ Tick

SpecTimed == Init /\ [][NextTimed]_vars

\* ------------------------------------------- two instances, one store
\* Each of the two instances runs one handler on its own connection, a
\* statement at a time, the statements of the two interleaved.  The store
\* isolates them as Oracle does by default (READ COMMITTED): a SELECT reads the
\* committed tables, an UPDATE locks the rows it writes until the commit of
\* its transaction, and an UPDATE of a row locked by the other connection waits
\* for that commit and then works on the row as committed.
Other(i) == CHOOSE j \in Instances : j # i

Running(j) == inst[j].pc \notin {"idle", "done"}

\* Instance j holds the locks of the pair's Maintenance rows: its UPDATE of them
\* is executed and not committed.
HoldsMaintenance(j, apartment_id, house_no) ==
    /\ inst[j].op = "service"
    /\ inst[j].pc \in {"update_tenant", "commit"}
    /\ inst[j].apartment_id = apartment_id /\ inst[j].house_no = house_no

\* Instance j holds the lock of the Tenant row: its UPDATE of it is executed
\* and not committed.
HoldsTenant(j, house_no) ==
    inst[j].pc = "commit" /\ inst[j].house_no = house_no

\* The handler of instance i returns, showing msg.
Return(i, msg) == inst' = [inst EXCEPT ![i].pc = "done", ![i].shown = msg]

Goto(i, pc) == inst' = [inst EXCEPT ![i].pc = pc]

\* provide of the service form of instance i: provide_service is entered.
Two_provide(i, apartment_id, house_no) ==
    /\ inst[i].pc = "idle"
    /\ inst' = [inst EXCEPT ![i] =
                  [NoSession EXCEPT !.pc = "check_complaint", !.op = "service",
                                    !.apartment_id = apartment_id,
                                    !.house_no = house_no,
                                    !.met = Running(Other(i))]]
    /\ UNCHANGED <<db, tx, now>>

\* if self.check_complaint(connection, apartment_id, house_no)
Two_check_complaint(i) ==
    /\ inst[i].op = "service" /\ inst[i].pc = "check_complaint"
    /\ IF AdminApp_check_complaint(Conn(db, db), inst[i].apartment_id,
                                   inst[i].house_no, FALSE)
       THEN Goto(i, "incomplete_complaint")
       ELSE Return(i, Shown("info", "No complaint registered for this apartment."))
    /\ UNCHANGED <<db, tx, now>>

\* if self.incomplete_complaint(connection, apartment_id, house_no)
Two_incomplete_complaint(i) ==
    /\ inst[i].op = "service" /\ inst[i].pc = "incomplete_complaint"
    /\ IF AdminApp_incomplete_complaint(Conn(db, db), inst[i].apartment_id,
                                        inst[i].house_no, FALSE)
       THEN Goto(i, "select_issues")
       ELSE Return(i, Shown("info", "Maintenance service already completed."))
    /\ UNCHANGED <<db, tx, now>>

\* SELECT issue_description ...; if issues_fixed
Two_select_issues(i) ==
    /\ inst[i].op = "service" /\ inst[i].pc = "select_issues"
    /\ IF IssuesFixed(Conn(db, db), inst[i].apartment_id, inst[i].house_no) # <<>>
       THEN Goto(i, "update_maintenance")
       ELSE Return(i, Shown("info", "No issues found to fix."))
    /\ UNCHANGED <<db, tx, now>>

\* UPDATE Maintenance SET status = 'Completed' WHERE apartment_id AND house_no:
\* waits while the other instance holds the rows; the rows are written to the
\* table at the commit.
Two_update_maintenance(i) ==
    /\ inst[i].op = "service" /\ inst[i].pc = "update_maintenance"
    /\ ~HoldsMaintenance(Other(i), inst[i].apartment_id, inst[i].house_no)
    /\ Goto(i, "update_tenant")
    /\ UNCHANGED <<db, tx, now>>

\* UPDATE Tenant SET due_amount = due_amount + 100 WHERE house_no: waits while
\* the other instance holds the row, then adds to the row as committed.
Two_charge_fee(i) ==
    /\ inst[i].op = "service" /\ inst[i].pc = "update_tenant"
    /\ ~HoldsTenant(Other(i), inst[i].house_no)
    /\ inst' = [inst EXCEPT
                  ![i].pc = "commit",
                  ![i].written =
                      IF inst[i].house_no \in DOMAIN db.Tenant
                      THEN ChargeFee(Conn(db, db), inst[i].house_no)
                              .tx.Tenant[inst[i].house_no].due_amount
                      ELSE NULL]
    /\ UNCHANGED <<db, tx, now>>

\* connection.commit() of provide_service: the two UPDATEs become the committed
\* tables (no Maintenance row is inserted meanwhile, so the rows of the pair
\* are those the UPDATE wrote), and the success message is returned.
Two_commit_service(i) ==
    /\ inst[i].op = "service" /\ inst[i].pc = "commit"
    /\ LET c == CompleteRows(Conn(db, db), inst[i].apartment_id, inst[i].house_no)
           h == inst[i].house_no
       IN  db' = IF h \in DOMAIN db.Tenant
                 THEN [c.tx EXCEPT !.Tenant[h].due_amount = inst[i].written]
                 ELSE c.tx
    /\ tx' = db'
    /\ Return(i, Shown("info", "Maintenance Service Completed"))
    /\ UNCHANGED now

\* process_payment of the payment form of instance i: the strategy prints and
\* make_payment is entered.
Two_process_payment(i, house_no, payment_date, amount_paid, payment_method) ==
    /\ inst[i].pc = "idle"
    /\ PaymentStrategy_process_payment(payment_method) # ""
    /\ inst' = [inst EXCEPT ![i] =
                  [NoSession EXCEPT !.pc = "select_tenant", !.op = "payment",
                                    !.house_no = house_no,
                                    !.payment_date = payment_date,
                                    !.amount_paid = amount_paid,
                                    !.payment_method = payment_method,
                                    !.met = Running(Other(i))]]
    /\ UNCHANGED <<db, tx, now>>

\* SELECT * FROM Tenant WHERE house_no; result = cursor.fetchone()
Two_select_tenant(i) ==
    /\ inst[i].op = "payment" /\ inst[i].pc = "select_tenant"
    /\ IF inst[i].house_no \in DOMAIN db.Tenant
       THEN inst' = [inst EXCEPT ![i].pc = "insert_payment",
                                 ![i].selected = db.Tenant[inst[i].house_no].due_amount]
       ELSE Return(i, Shown("warning", "No tenant found with that house number."))
    /\ UNCHANGED <<db, tx, now>>

\* INSERT INTO Payment: the row is written to the table at the commit.
Two_insert_payment(i) ==
    /\ inst[i].op = "payment" /\ inst[i].pc = "insert_payment"
    /\ Goto(i, "update_tenant")
    /\ UNCHANGED <<db, tx, now>>

\* As DueAfterPayment, the amount taken off the due_amount the SELECT fetched.
DueAfterPayment_selected(due_amount, selected, amount_paid) == selected - amount_paid

\* "SET due_amount = due_amount - :1": the store takes the amount off the
\* due_amount of the row; the row the handler's SELECT fetched is not used.
DueAfterPayment(due_amount, selected, amount_paid) == due_amount - amount_paid

\* UPDATE Tenant SET due_amount = due_amount - amount WHERE house_no: waits
\* while the other instance holds the row, then works on the row as committed.
Two_deduct(i) ==
    /\ inst[i].op = "payment" /\ inst[i].pc = "update_tenant"
    /\ ~HoldsTenant(Other(i), inst[i].house_no)
    /\ inst' = [inst EXCEPT
                  ![i].pc = "commit",
                  ![i].written =
                      DueAfterPayment(db.Tenant[inst[i].house_no].due_amount,
                                      inst[i].selected, inst[i].amount_paid)]
    /\ UNCHANGED <<db, tx, now>>

\* connection.commit() of make_payment: the Payment row and the due_amount
\* written become the committed tables, and the success box is shown.
Two_commit_payment(i) ==
    /\ inst[i].op = "payment" /\ inst[i].pc = "commit"
    /\ db' = [db EXCEPT
                !.Payment = Append(@, PaymentRow(inst[i].house_no, inst[i].payment_date,
                                                 inst[i].amount_paid,
                                                 inst[i].payment_method)),
                !.Tenant[inst[i].house_no].due_amount = inst[i].written]
    /\ tx' = db'
    /\ Return(i, Shown("info", "Payment recorded successfully!"))
    /\ UNCHANGED now

\* The store when the two instances start: tenants with the default
\* due_amount and the open Maintenance requests they have filed; nothing paid
\* or audited.
TwoInitialTables ==
    { [t EXCEPT !.Maintenance = m] :
        t \in InitialTables,
        m \in UNION { [1..n -> { MaintenanceRow(a, h, i) :
                                  a \in AptIds, h \in Houses, i \in Issues }] :
                      n \in 0..MaxRows } }

InitTwo ==
    /\ db \in TwoInitialTables
    /\ \A k \in DOMAIN db.Maintenance : db.Maintenance[k].house_no \in DOMAIN db.Tenant
    /\ tx = db
    /\ now = 0
    /\ inst = Idle

NextTwo ==
    \/ \E i \in Instances, a \in AptIds, h \in Houses : Two_provide(i, a, h)
    \/ \E i \in Instances : Two_check_complaint(i)
    \/ \E i \in Instances : Two_incomplete_complaint(i)
    \/ \E i \in Instances : Two_select_issues(i)
    \/ \E i \in Instances : Two_update_maintenance(i)
    \/ \E i \in Instances : Two_charge_fee(i)
    \/ \E i \in Instances : Two_commit_service(i)
    \/ \E i \in Instances, h \in Houses, d \in PaymentDates, a \in Amounts, m \in Methods :
          Two_process_payment(i, h, d, a, m)
    \/ \E i \in Instances : Two_select_tenant(i)
    \/ \E i \in Instances : Two_insert_payment(i)
    \/ \E i \in Instances : Two_deduct(i)
    \/ \E i \in Instances : Two_commit_payment(i)

\* Two instances, each running one handler, on one store.
SpecTwo == InitTwo /\ [][NextTwo]_vars

\* ================================================================ claims
Audit(t, action, house_no) ==
    Count(t.Audit_Tenant, LAMBDA r : r.action = action /\ r.house_no = house_no)

\* The rows of Audit_Tenant a step has appended.
Appended(n) ==
    /\ Len(db'.Audit_Tenant) = Len(db.Audit_Tenant) + n
    /\ SubSeq(db'.Audit_Tenant, 1, Len(db.Audit_Tenant)) = db.Audit_Tenant

\* C1: every successful tenant add/update/delete produces exactly one
\* Audit_Tenant row of its action and house_no, and nothing else produces one,
\* provided the audit writes themselves do not fail.  Both counts start at 0,
\* so the counts stay equal exactly when every handler step adds as many rows
\* of an action and house_no as mutations of that kind succeeded in it.
C1_OneAuditRowPerMutation ==
    [][\A h \in Houses :
        /\ \A i \in TenantInputs, f \in {0, 1} :
              AdminApp_add_tenant(h, i, f) =>
                Audit(db', "INSERT", h) - Audit(db, "INSERT", h) =
                  IF AddTenantFails(Conn(db, tx), TenantData(h, i), f = 1) THEN 0 ELSE 1
        /\ \A i \in TenantInputs, f \in {0, 1} :
              AdminApp_update_tenant(h, i, f) =>
                Audit(db', "UPDATE", h) - Audit(db, "UPDATE", h) =
                  IF f = 1 THEN 0 ELSE 1
        /\ \A f \in {0, 1, 3} :
              AdminApp_delete_tenant(h, f) =>
                Audit(db', "DELETE", h) - Audit(db, "DELETE", h) =
                  IF h \in DOMAIN db.Tenant /\ h \notin DOMAIN db'.Tenant THEN 1 ELSE 0
    ]_vars

\* C2: adding a tenant whose house_no is already in Tenant leaves Tenant
\* unchanged and adds no Audit_Tenant row.
C2_DuplicateAddWritesNothing ==
    [][\A h \in Houses, i \in TenantInputs, f \in AddFaults :
        (h \in DOMAIN db.Tenant /\ AdminApp_add_tenant(h, i, f)) =>
            /\ db'.Tenant = db.Tenant
            /\ db'.Audit_Tenant = db.Audit_Tenant
    ]_vars

\* C3: the admin delete handler, for an existing tenant H and no failing
\* statement, removes Tenant(H) and appends exactly one Audit_Tenant row: action
\* DELETE, house_no H, the other fields null.
C3_DeleteOneAuditRow ==
    [][\A h \in Houses :
        (h \in DOMAIN db.Tenant /\ AdminApp_delete_tenant(h, 0)) =>
            /\ h \notin DOMAIN db'.Tenant
            /\ Appended(1)
            /\ LET r == db'.Audit_Tenant[Len(db'.Audit_Tenant)]
               IN  /\ r.action = "DELETE" /\ r.house_no = h
                   /\ r.tenant_name = NULL /\ r.phone_number = NULL
                   /\ r.apartment_id = NULL /\ r.move_in_date = NULL
    ]_vars

\* The theorems below are state predicates: in every reachable state, and for
\* every input, the connection a handler would leave (and the message it would
\* show) is as claimed.  A handler that changes nothing is a stuttering step,
\* which no action property constrains; a predicate on its outcome does.
Here == Conn(db, tx)

AfterAdd(h, i, f) == TenantManager_add_tenant(Here, TenantData(h, i), now, f)

AfterPayment(h, d, a, m, f) == MakePaymentConn(Here, h, d, a, m, f)

Service(a, h, f) == AdminApp_provide_service(Here, a, h, f)

\* rows is old with n rows appended.
Extends(rows, old, n) ==
    /\ Len(rows) = Len(old) + n
    /\ SubSeq(rows, 1, Len(old)) = old

\* C4: adding a tenant with valid input and a house_no not yet in Tenant, no
\* statement failing: afterwards ListTenants holds exactly one row with that
\* house_no, carrying the supplied name, phone, apartment_id and move_in_date,
\* and exactly one Audit_Tenant row has been appended, an INSERT of that
\* house_no.
C4_FreshAdd ==
    \A h \in Houses \ DOMAIN db.Tenant, i \in TenantInputs :
        LET c == AfterAdd(h, i, 0)
            rows == {r \in ListTenantsCommand_execute(c) : r[1] = h}
        IN  /\ Cardinality(rows) = 1
            /\ \A r \in rows :
                  /\ r[2] = i.tenant_name /\ r[3] = i.phone_number
                  /\ r[4] = i.apartment_id /\ r[5] = i.move_in_date
            /\ Extends(c.db.Audit_Tenant, db.Audit_Tenant, 1)
            /\ Audit(c.db, "INSERT", h) = Audit(db, "INSERT", h) + 1
            /\ c.tx = c.db

\* A tenant in apartment 2 with no UPDATE audited can only have been added:
\* the tenants the store starts with are all in apartment 1.
C4_Witness ==
    /\ Len(db.Audit_Tenant) = 1
    /\ LET r == db.Audit_Tenant[1]
       IN  /\ r.action = "INSERT"
           /\ r.house_no \in DOMAIN db.Tenant
           /\ db.Tenant[r.house_no].apartment_id = 2
           /\ r.apartment_id = 2

\* C5: recording a payment of amount A for house_no H, no statement failing:
\* when Tenant(H) exists with due_amount D, afterwards its due_amount is D - A
\* and Payment has exactly one new row, for H with the given date, amount and
\* method; when H is not a tenant (whatever fails), no table is written.
C5_RecordPayment ==
    \A h \in Houses, d \in PaymentDates, a \in Amounts, m \in Methods :
        /\ h \in DOMAIN db.Tenant =>
              LET c == AfterPayment(h, d, a, m, 0)
              IN  /\ h \in DOMAIN c.db.Tenant
                  /\ c.db.Tenant[h].due_amount = db.Tenant[h].due_amount - a
                  /\ c.db.Payment =
                        Append(db.Payment,
                               [house_no |-> h, payment_date |-> d,
                                amount_paid |-> a, payment_method |-> m])
        /\ h \notin DOMAIN db.Tenant =>
              \A f \in PaymentFaults : AfterPayment(h, d, a, m, f) = Conn(db, db)

\* One payment recorded: its amount is off the tenant's default due_amount;
\* the other house has no tenant.
C5_Witness ==
    /\ Len(db.Payment) = 1
    /\ db.Payment[1].house_no \in DOMAIN db.Tenant
    /\ db.Tenant[db.Payment[1].house_no].due_amount =
          DefaultDue - db.Payment[1].amount_paid
    /\ \E h \in Houses : h \notin DOMAIN db.Tenant

Deducted(tenants, h, a) ==
    [k \in DOMAIN tenants |->
        IF k = h THEN [tenants[k] EXCEPT !.due_amount = @ - a] ELSE tenants[k]]

\* C6: recording a payment is all-or-nothing, whichever statement fails:
\* afterwards either the new Payment row and the deduction are both committed,
\* or neither is, and the connection holds no uncommitted write that a later
\* commit could persist.
C6_PaymentAllOrNothing ==
    \A h \in Houses, d \in PaymentDates, a \in Amounts, m \in Methods,
       f \in PaymentFaults :
        LET c == AfterPayment(h, d, a, m, f)
        IN  /\ \/ /\ Extends(c.db.Payment, db.Payment, 1)
                  /\ h \in DOMAIN db.Tenant
                  /\ c.db.Tenant = Deducted(db.Tenant, h, a)
               \/ /\ c.db.Payment = db.Payment
                  /\ c.db.Tenant = db.Tenant
            /\ c.tx = c.db

\* A tenant has paid once, and a payment whose UPDATE fails leaves no trace.
C6_Witness ==
    \E h \in DOMAIN db.Tenant, d \in PaymentDates, a \in Amounts, m \in Methods :
        /\ Len(db.Payment) = 1 /\ db.Payment[1].house_no = h
        /\ db.Tenant[h].due_amount = DefaultDue - db.Payment[1].amount_paid
        /\ AfterPayment(h, d, a, m, 3) = Conn(db, db)

Open(t, a, h) ==
    Count(t.Maintenance, LAMBDA r : ForPair(r, a, h) /\ r.status # "Completed")

Filed(t, a, h) == Count(t.Maintenance, LAMBDA r : ForPair(r, a, h))

Completed == Shown("info", "Maintenance Service Completed")

AlreadyCompleted == Shown("info", "Maintenance service already completed.")

NoComplaint == Shown("info", "No complaint registered for this apartment.")

\* C7: completing the service for a pair (apt, H) of a tenant H with one open
\* Maintenance row, no statement failing, sets that row to completed and raises
\* Tenant(H).due_amount by exactly 100; completing it again, the pair having
\* rows and none open, answers "already completed", not an error, and leaves
\* all tables as they are.
C7_CompleteOnce ==
    \A a \in AptIds, h \in Houses :
        LET r == Service(a, h, 0)
            again == AdminApp_provide_service(r.conn, a, h, 0)
        IN  /\ (Open(db, a, h) = 1 /\ h \in DOMAIN db.Tenant) =>
                  /\ Open(r.conn.db, a, h) = 0
                  /\ Filed(r.conn.db, a, h) = Filed(db, a, h)
                  /\ h \in DOMAIN r.conn.db.Tenant
                  /\ r.conn.db.Tenant[h].due_amount = db.Tenant[h].due_amount + 100
                  /\ r.shown = Completed
                  /\ again.shown = AlreadyCompleted
                  /\ again.conn = r.conn
            /\ (Open(db, a, h) = 0 /\ Filed(db, a, h) > 0) =>
                  /\ r.shown = AlreadyCompleted
                  /\ r.conn = Conn(db, db)

\* The one row of a pair has been completed and the fee charged once.
C7_Witness ==
    \E a \in AptIds, h \in DOMAIN db.Tenant :
        /\ Filed(db, a, h) = 1 /\ Open(db, a, h) = 0
        /\ Len(db.Maintenance) = 1
        /\ db.Tenant[h].due_amount = DefaultDue + 100

\* C8: the fee is per service event, not per issue: completing the service for
\* a pair of a tenant H with k >= 1 open rows, no statement failing, sets all of the pair's
\* rows to completed, leaves the other pairs' rows alone and raises
\* Tenant(H).due_amount by exactly 100 whatever k is.
C8_FeePerEvent ==
    \A a \in AptIds, h \in Houses :
        (Open(db, a, h) >= 1 /\ h \in DOMAIN db.Tenant) =>
            LET c == Service(a, h, 0).conn
            IN  /\ DOMAIN c.db.Maintenance = DOMAIN db.Maintenance
                /\ \A i \in DOMAIN db.Maintenance :
                      IF ForPair(db.Maintenance[i], a, h)
                      THEN c.db.Maintenance[i] =
                             [db.Maintenance[i] EXCEPT !.status = "Completed"]
                      ELSE c.db.Maintenance[i] = db.Maintenance[i]
                /\ h \in DOMAIN c.db.Tenant
                /\ c.db.Tenant[h].due_amount = db.Tenant[h].due_amount + 100

\* Two rows of one pair were completed by one service: one fee.
C8_Witness ==
    \E a \in AptIds, h \in DOMAIN db.Tenant :
        /\ Filed(db, a, h) = 2 /\ Open(db, a, h) = 0
        /\ Len(db.Payment) = 0
        /\ db.Tenant[h].due_amount = DefaultDue + 100

\* C9: completing the service for a pair with no open row, no statement
\* failing, changes no table and answers "no complaint" exactly when the pair
\* has no row at all and "already completed" exactly when it has rows, all of
\* them completed.
C9_NothingToDo ==
    \A a \in AptIds, h \in Houses :
        Open(db, a, h) = 0 =>
            LET r == Service(a, h, 0)
            IN  /\ r.conn = Conn(db, db)
                /\ r.shown \in {NoComplaint, AlreadyCompleted}
                /\ r.shown = NoComplaint <=> Filed(db, a, h) = 0
                /\ r.shown = AlreadyCompleted <=> Filed(db, a, h) > 0

\* One pair of a house has a completed row while its other pair has none:
\* both answers are due in this state.
C9_Witness ==
    \E a, b \in AptIds, h \in Houses :
        /\ Filed(db, a, h) > 0 /\ Open(db, a, h) = 0
        /\ Filed(db, b, h) = 0

\* C10: completing the service is atomic across its two writes, whichever
\* statement fails: rows of the pair were moved to completed by the call if and
\* only if Tenant(H).due_amount was raised by 100 by it, the call reports
\* success only then, and nothing uncommitted is left on the connection.  (The
\* tenant of a Maintenance row always exists: the row references it.)
C10_ServiceAtomic ==
    \A a \in AptIds, h \in Houses, f \in ServiceFaults :
        LET r == Service(a, h, f)
            charged == /\ h \in DOMAIN db.Tenant /\ h \in DOMAIN r.conn.db.Tenant
                       /\ r.conn.db.Tenant[h].due_amount = db.Tenant[h].due_amount + 100
            moved == r.conn.db.Maintenance # db.Maintenance
        IN  /\ moved <=> charged
            /\ ~charged => r.conn.db = db
            /\ r.shown = Completed <=> charged
            /\ r.conn.tx = r.conn.db

\* A service has been completed and charged, and another pair of the tenant is
\* open: a service on it whose second UPDATE fails leaves no trace.
C10_Witness ==
    \E a, b \in AptIds, h \in DOMAIN db.Tenant :
        /\ Filed(db, a, h) = 1 /\ Open(db, a, h) = 0
        /\ Open(db, b, h) = 1
        /\ db.Tenant[h].due_amount = DefaultDue + 100
        /\ Service(b, h, 5).conn = Conn(db, db)

AfterRequest(a, h, i, f) == RequestMaintenanceConn(Here, a, h, i, f)

\* C11: filing a maintenance request for (apt, H), no statement failing, when
\* Tenant(H) exists: Maintenance has exactly one new row, for that pair and
\* issue, which is open (a service for the pair that follows completes it and
\* reports success) and no other table changes; when H is not a tenant
\* (whatever fails), no table is written.
C11_FileRequest ==
    \A a \in AptIds, h \in Houses, i \in Issues :
        /\ h \in DOMAIN db.Tenant =>
              LET c == AfterRequest(a, h, i, 0)
                  new == c.db.Maintenance[Len(c.db.Maintenance)]
                  served == AdminApp_provide_service(c, a, h, 0)
              IN  /\ Extends(c.db.Maintenance, db.Maintenance, 1)
                  /\ ForPair(new, a, h) /\ new.issue_description = i
                  /\ new.status # "Completed"
                  /\ Open(c.db, a, h) = Open(db, a, h) + 1
                  /\ c.db.Tenant = db.Tenant /\ c.db.Payment = db.Payment
                  /\ c.db.Audit_Tenant = db.Audit_Tenant
                  /\ c.tx = c.db
                  /\ served.shown = Completed
                  /\ Open(served.conn.db, a, h) = 0
        /\ h \notin DOMAIN db.Tenant =>
              \A f \in RequestFaults : AfterRequest(a, h, i, f) = Conn(db, db)

\* One request has been filed, by a tenant, and is open; the other house has
\* no tenant.
C11_Witness ==
    /\ Len(db.Maintenance) = 1
    /\ db.Maintenance[1].house_no \in DOMAIN db.Tenant
    /\ db.Maintenance[1].status # "Completed"
    /\ \E h \in Houses : h \notin DOMAIN db.Tenant

Latest == AdminApp_display_latest_modifications_gui(Here, FALSE)

\* C12: whatever tenant mutations have written to Audit_Tenant, the latest
\* modifications listed (the SELECT not failing) are exactly the rows whose
\* change_date no other row's exceeds, each once: at least one row when the
\* table is not empty, and never a row with an earlier change_date.
C12_LatestAuditEntries ==
    LET audit == db.Audit_Tenant
        listed == {Latest[k][1] : k \in DOMAIN Latest}
    IN  /\ \A i \in DOMAIN audit :
              i \in listed <=> \A j \in DOMAIN audit :
                                  audit[j].change_date <= audit[i].change_date
        /\ listed \subseteq DOMAIN audit
        /\ Len(Latest) = Cardinality(listed)
        /\ \A k \in DOMAIN Latest :
              Latest[k] = <<Latest[k][1], audit[Latest[k][1]].house_no,
                            audit[Latest[k][1]].action, audit[Latest[k][1]].change_date>>
        /\ audit # <<>> => Len(Latest) >= 1

\* Two audit rows, the first written earlier than the second: the second is
\* listed, the first is not.
C12_Witness ==
    /\ Len(db.Audit_Tenant) = 2
    /\ db.Audit_Tenant[1].change_date < db.Audit_Tenant[2].change_date
    /\ Len(Latest) = 1 /\ Latest[1][1] = 2

\* C13: Audit_Tenant is append-only: no step of any handler modifies or removes
\* a row written before it, neither in the committed table nor in the
\* connection's view, so the table of a state is a prefix of the table of every
\* later state.
C13_AuditAppendOnly ==
    [][/\ Len(db'.Audit_Tenant) >= Len(db.Audit_Tenant)
       /\ SubSeq(db'.Audit_Tenant, 1, Len(db.Audit_Tenant)) = db.Audit_Tenant
       /\ Len(tx'.Audit_Tenant) >= Len(tx.Audit_Tenant)
       /\ SubSeq(tx'.Audit_Tenant, 1, Len(tx.Audit_Tenant)) = tx.Audit_Tenant
    ]_vars

\* Two mutations of one house have been audited, the add first: the row of
\* the add is still there, unchanged, under the row of the update.
C13_Witness ==
    /\ Len(db.Audit_Tenant) = 2
    /\ db.Audit_Tenant[1].action = "INSERT"
    /\ db.Audit_Tenant[2].action = "UPDATE"
    /\ db.Audit_Tenant[1].house_no = db.Audit_Tenant[2].house_no

\* C14: when the audit write fails after the tenant command has run, the
\* failure is printed and the command's committed outcome stays: the Tenant
\* table the handler leaves is the Tenant table right after the command, and
\* no audit row is written.  (Fault 2 of add and update, fault 4 of the delete
\* handler: the INSERT of the notification raises.)
C14_AuditFailureKeepsMutation ==
    /\ AuditLogger_printed("INSERT", TRUE) = "Error logging audit"
    /\ \A h \in Houses, i \in TenantInputs :
          LET data == TenantData(h, i)
              added == AddTenantCommand_execute(Here, data, FALSE)
              add == TenantManager_add_tenant(Here, data, now, 2)
              updated == UpdateTenantCommand_execute(Here, data, FALSE)
              update == TenantManager_update_tenant(Here, data, now, 2)
          IN  /\ add.db.Tenant = added.db.Tenant
              /\ h \notin DOMAIN db.Tenant => h \in DOMAIN add.db.Tenant
              /\ add.db.Audit_Tenant = db.Audit_Tenant
              /\ update.db.Tenant = updated.db.Tenant
              /\ h \in DOMAIN db.Tenant =>
                    update.db.Tenant[h] = TenantRow(data, db.Tenant[h].due_amount)
              /\ update.db.Audit_Tenant = db.Audit_Tenant
    /\ \A h \in Houses :
          LET logged == AuditLogger_update(Here, "DELETE", [house_no |-> h], now, FALSE)
              deleted == DeleteTenantCommand_execute(logged, h, FALSE)
              delete == DeleteTenantConn(Here, h, now, 4)
          IN  h \in DOMAIN db.Tenant =>
                /\ delete.db.Tenant = deleted.db.Tenant
                /\ delete.db.Audit_Tenant = logged.db.Audit_Tenant
                /\ ~DeleteTenantRejected(db, h) => h \notin DOMAIN delete.db.Tenant

\* A tenant changed by the application (the store starts with tenants of
\* apartment 1 only) while nothing has been audited: the audit write failed
\* and the change stayed.
C14_Witness ==
    /\ db.Audit_Tenant = <<>>
    /\ \E h \in DOMAIN db.Tenant : db.Tenant[h].apartment_id = 2

\* C15: updating a house_no that matches no Tenant row, no statement failing,
\* is not told from success: Tenant stays as it is, the handler says "Tenant
\* updated successfully", and exactly one Audit_Tenant row is appended, an
\* UPDATE of that house_no carrying the supplied fields.
C15_ZeroRowUpdate ==
    \A h \in Houses \ DOMAIN db.Tenant, i \in TenantInputs :
        LET c == TenantManager_update_tenant(Here, TenantData(h, i), now, 0)
        IN  /\ c.db.Tenant = db.Tenant
            /\ UpdateTenantShown = Shown("info", "Tenant updated successfully")
            /\ c.db.Audit_Tenant =
                  Append(db.Audit_Tenant,
                         [house_no |-> h, tenant_name |-> i.tenant_name,
                          phone_number |-> i.phone_number,
                          apartment_id |-> i.apartment_id,
                          move_in_date |-> i.move_in_date,
                          action |-> "UPDATE", change_date |-> now])
            /\ c.db.Payment = db.Payment /\ c.db.Maintenance = db.Maintenance
            /\ c.tx = c.db

\* The one audit row is an UPDATE of a house that has no tenant (and, nothing
\* else being audited, never had one removed).
C15_Witness ==
    /\ Len(db.Audit_Tenant) = 1
    /\ db.Audit_Tenant[1].action = "UPDATE"
    /\ db.Audit_Tenant[1].house_no \notin DOMAIN db.Tenant

\* C16: a DatabaseError raised by any statement of any operation is handled
\* inside it and what it started is rolled back: whichever statement fails, the
\* connection every handler leaves has no uncommitted write (its view is the
\* committed tables), and the two transactions of more than one write (payment,
\* service) and the request leave the committed tables as they were when one
\* of their statements failed.  A failing listing returns no rows.
C16_ErrorsRolledBack ==
    /\ tx = db
    /\ AdminApp_display_latest_modifications_gui(Here, TRUE) = <<>>
    /\ \A h \in Houses :
          /\ \A i \in TenantInputs, f \in AddFaults :
                LET c == TenantManager_add_tenant(Here, TenantData(h, i), now, f)
                IN  c.tx = c.db /\ (f = 1 => c.db.Tenant = db.Tenant)
          /\ \A i \in TenantInputs, f \in UpdateFaults :
                LET c == TenantManager_update_tenant(Here, TenantData(h, i), now, f)
                IN  c.tx = c.db /\ (f = 1 => c.db.Tenant = db.Tenant)
          /\ \A f \in DeleteFaults :
                LET c == DeleteTenantConn(Here, h, now, f)
                IN  c.tx = c.db /\ (f \in {1, 3} => c.db.Tenant = db.Tenant)
          /\ \A d \in PaymentDates, a \in Amounts, m \in Methods, f \in PaymentFaults :
                LET c == AfterPayment(h, d, a, m, f)
                IN  c.tx = c.db /\ (f # 0 => c.db = db)
          /\ \A a \in AptIds, i \in Issues, f \in RequestFaults :
                LET c == AfterRequest(a, h, i, f)
                IN  c.tx = c.db /\ (f # 0 => c.db = db)
          /\ \A a \in AptIds, f \in ServiceFaults :
                LET r == Service(a, h, f)
                IN  /\ r.conn.tx = r.conn.db
                    /\ f # 0 => r.conn.db = db
                    /\ (f \in 3..5 /\ Open(db, a, h) > 0) => r.shown.kind = "error"

\* A tenant with an audited change and an open request: a payment whose UPDATE
\* fails after its INSERT, and a service whose second UPDATE fails after its
\* first, both leave the connection as it is.
C16_Witness ==
    \E a \in AptIds, h \in DOMAIN db.Tenant, d \in PaymentDates, p \in Amounts,
       m \in Methods :
        /\ Len(db.Audit_Tenant) = 1 /\ db.Audit_Tenant[1].house_no = h
        /\ Open(db, a, h) = 1
        /\ AfterPayment(h, d, p, m, 3) = Here
        /\ Service(a, h, 5).conn = Here

\* C17: every operation that fails at the store is shown as a failure: when a
\* statement of an add, update, delete, payment, request or service raises
\* DatabaseError (or the store rejects the INSERT or DELETE of a tenant), the
\* message shown is an error, never a success, and never an answer that is not
\* an error ("no complaint registered", "already completed", "not found").
C17_FailuresSurfaced ==
    \A h \in Houses :
        \* add and update show one message whatever the command did
        /\ \A i \in TenantInputs, f \in {0, 1} :
              /\ AddTenantFails(Here, TenantData(h, i), f = 1) =>
                    AddTenantShown.kind = "error"
              /\ f = 1 => UpdateTenantShown.kind = "error"
        /\ \A f \in {0, 1, 3} :
              (f = 1 \/ (h \in DOMAIN db.Tenant /\ DeleteTenantFails(Here, h, f = 3))) =>
                    DeleteTenantShown(Here, h, f).kind = "error"
        /\ \A f \in PaymentFaults :
              (f = 1 \/ (h \in DOMAIN db.Tenant /\ f # 0)) =>
                    MakePaymentShown(Here, h, f).kind = "error"
        /\ \A f \in RequestFaults :
              (f = 1 \/ (h \in DOMAIN db.Tenant /\ f # 0)) =>
                    RequestMaintenanceShown(Here, h, f).kind = "error"
        /\ \A a \in AptIds, f \in ServiceFaults :
              (f = 1 \/ (f = 2 /\ Filed(db, a, h) > 0) \/ (f >= 3 /\ Open(db, a, h) > 0)) =>
                    Service(a, h, f).shown.kind = "error"

\* The Payment table without the payment_method values.
MethodErased(rows) == [k \in DOMAIN rows |-> [rows[k] EXCEPT !.payment_method = NULL]]

\* C18: the payment method has no effect on what is persisted beyond the
\* payment_method field: from the same state, for the same house_no, date and
\* amount (and the same statement failing or none), the payments of any two
\* methods leave the same Tenant, Maintenance and Audit_Tenant tables and the
\* same Payment table but for the payment_method of the new row, which is the
\* method chosen; they show the same message.
C18_MethodIndependent ==
    \A h \in Houses, d \in PaymentDates, a \in Amounts, f \in PaymentFaults :
        \A m1, m2 \in Methods :
            LET c1 == AfterPayment(h, d, a, m1, f)
                c2 == AfterPayment(h, d, a, m2, f)
            IN  /\ c1.db.Tenant = c2.db.Tenant
                /\ c1.db.Maintenance = c2.db.Maintenance
                /\ c1.db.Audit_Tenant = c2.db.Audit_Tenant
                /\ MethodErased(c1.db.Payment) = MethodErased(c2.db.Payment)
                /\ SubSeq(c1.db.Payment, 1, Len(db.Payment)) = db.Payment
                /\ Len(c1.db.Payment) > Len(db.Payment) =>
                      c1.db.Payment[Len(c1.db.Payment)].payment_method = m1
                /\ c1.tx = c1.db
                /\ PaymentStrategy_process_payment(m1) # ""

\* Two payments of one amount by one tenant, by different methods: each took
\* the amount off the due_amount.
C18_Witness ==
    /\ Len(db.Payment) = 2
    /\ db.Payment[1].house_no = db.Payment[2].house_no
    /\ db.Payment[1].amount_paid = db.Payment[2].amount_paid
    /\ db.Payment[1].payment_method = "Cash"
    /\ db.Payment[2].payment_method = "Credit Card"
    /\ db.Payment[1].house_no \in DOMAIN db.Tenant
    /\ db.Tenant[db.Payment[1].house_no].due_amount =
          DefaultDue - 2 * db.Payment[1].amount_paid

\* old moved forward to rows: no row removed, and each row either as it was or
\* an open row now completed.
MovedForward(old, rows) ==
    /\ Len(rows) >= Len(old)
    /\ \A i \in DOMAIN old :
          \/ rows[i] = old[i]
          \/ /\ old[i].status # "Completed"
             /\ rows[i] = [old[i] EXCEPT !.status = "Completed"]

\* C19: Maintenance rows only move forward: no step of any handler removes a
\* row or reopens a completed one, a row changes only from open to completed,
\* and only a step of the service handler changes a row.
C19_MaintenanceMonotone ==
    [][/\ MovedForward(db.Maintenance, db'.Maintenance)
       /\ MovedForward(tx.Maintenance, tx'.Maintenance)
       /\ SubSeq(db'.Maintenance, 1, Len(db.Maintenance)) # db.Maintenance =>
             \E a \in AptIds, h \in Houses : AdminApp_provide(a, h, 0)
    ]_vars

\* A completed row and, filed after it, an open row of the same pair.
C19_Witness ==
    /\ Len(db.Maintenance) = 2
    /\ db.Maintenance[1].status = "Completed"
    /\ db.Maintenance[2].status # "Completed"
    /\ ForPair(db.Maintenance[2], db.Maintenance[1].apartment_id,
               db.Maintenance[1].house_no)

RECURSIVE PaidFrom(_, _, _)
\* The sum of amount_paid of the Payment rows of house_no h from the i-th on.
PaidFrom(rows, h, i) ==
    IF i > Len(rows) THEN 0
    ELSE (IF rows[i].house_no = h THEN rows[i].amount_paid ELSE 0)
         + PaidFrom(rows, h, i + 1)

Paid(t, h) == PaidFrom(t.Payment, h, 1)

\* C20: due-amount accounting, step by step: for a tenant H in Tenant before
\* and after a handler step, due_amount plus the sum of H's Payment rows rises
\* by 100 when the step is a successful service for H and stays as it is in
\* every other step (an update of H, a failed operation, an operation on
\* another tenant); a payment takes its amount off, and nothing else changes
\* due_amount.  So due_amount is its initial value minus the payments recorded
\* for H plus 100 for each successful service event for H.
C20_DueAccounting ==
    [][\A h \in DOMAIN db.Tenant \cap DOMAIN db'.Tenant :
        LET due == db'.Tenant[h].due_amount - db.Tenant[h].due_amount
            paid == Paid(db', h) - Paid(db, h)
            served == \E a \in AptIds : AdminApp_provide(a, h, 0) /\ Open(db, a, h) > 0
        IN  /\ due + paid = IF served THEN 100 ELSE 0
            /\ paid # 0 =>
                  \E d \in PaymentDates, a \in Amounts, m \in Methods :
                      /\ TenantApp_process_payment(h, d, a, m, 0)
                      /\ paid = a
            /\ db'.Tenant[h].due_amount = tx'.Tenant[h].due_amount
    ]_vars

\* A tenant whose fields were written by the application has paid once and
\* been served once: the due_amount is the default less the payment plus 100.
C20_Witness ==
    \E h \in DOMAIN db.Tenant :
        /\ db.Tenant[h].tenant_name = 12
        /\ Len(db.Payment) = 1 /\ db.Payment[1].house_no = h
        /\ Len(db.Maintenance) = 1 /\ db.Maintenance[1].house_no = h
        /\ db.Maintenance[1].status = "Completed"
        /\ db.Tenant[h].due_amount = DefaultDue - db.Payment[1].amount_paid + 100

\* C21: the admin delete handler, for a house_no that matches no Tenant row,
\* shows "Tenant not found" and changes nothing, whichever statement would
\* fail: no Tenant row is removed, no Audit_Tenant row is added, and the
\* connection is left as it was.
C21_DeleteUnknown ==
    \A h \in Houses \ DOMAIN db.Tenant, f \in DeleteFaults :
        LET c == DeleteTenantConn(Here, h, now, f)
        IN  /\ DeleteTenantShown(Here, h, f) = Shown("warning", "Tenant not found")
            /\ c.db.Tenant = db.Tenant
            /\ c.db.Audit_Tenant = db.Audit_Tenant
            /\ c = Conn(db, db)

\* The other house has a tenant whose add was audited; this house has none
\* and no DELETE of it is in the audit table.
C21_Witness ==
    \E h \in Houses \ DOMAIN db.Tenant, k \in DOMAIN db.Tenant :
        /\ Len(db.Audit_Tenant) = 1
        /\ db.Audit_Tenant[1].action = "INSERT" /\ db.Audit_Tenant[1].house_no = k
        /\ Audit(db, "DELETE", h) = 0
        /\ DeleteTenantConn(Here, h, now, 0) = Here

\* Both instances have run the handler op to its end.
BothDone(op) ==
    \A i \in Instances : inst[i].op = op /\ inst[i].pc = "done"

\* C22: two instances completing the service for the same pair (apt, H), which
\* has open rows, charge the fee once in total: when both handlers have
\* returned, in whatever order their statements ran, Tenant(H).due_amount is
\* 100 above what it was (the default: nothing else has changed it).
C22_FeeChargedOnce ==
    \A a \in AptIds, h \in Houses :
        ( /\ BothDone("service")
          /\ \A i \in Instances : inst[i].apartment_id = a /\ inst[i].house_no = h
          /\ \E i \in Instances : inst[i].shown = Completed )
        => /\ h \in DOMAIN db.Tenant
           /\ db.Tenant[h].due_amount = DefaultDue + 100

PaidOk == Shown("info", "Payment recorded successfully!")

\* C23: two instances recording payments of A1 and A2 for the same tenant H,
\* both succeeding, lose no decrement: when both handlers have returned, in
\* whatever order their statements ran, Tenant(H).due_amount is what it was
\* (the default) less A1 and less A2, and Payment holds exactly two rows, one
\* of each instance.
C23_NoLostDecrement ==
    \A h \in Houses :
        ( /\ BothDone("payment")
          /\ \A i \in Instances : inst[i].house_no = h /\ inst[i].shown = PaidOk )
        => /\ h \in DOMAIN db.Tenant
           /\ db.Tenant[h].due_amount =
                 DefaultDue - inst[1].amount_paid - inst[2].amount_paid
           /\ Len(db.Payment) = 2
           /\ \E i \in Instances :
                 /\ db.Payment[1] =
                       PaymentRow(h, inst[i].payment_date, inst[i].amount_paid,
                                  inst[i].payment_method)
                 /\ db.Payment[2] =
                       PaymentRow(h, inst[Other(i)].payment_date,
                                  inst[Other(i)].amount_paid,
                                  inst[Other(i)].payment_method)

\* Both payments, of different amounts for one tenant, are recorded, and the
\* second instance started while the first was in its handler.
C23_Witness ==
    /\ BothDone("payment")
    /\ inst[1].house_no = inst[2].house_no
    /\ inst[1].amount_paid # inst[2].amount_paid
    /\ \A i \in Instances : inst[i].shown = PaidOk
    /\ \E i \in Instances : inst[i].met
    /\ Len(db.Payment) = 2

====
